---- MODULE Spec2Model ----
(***************************************************************************)
(* The email-capture server of the Auravia "coming soon" page: the         *)
(* email_subscribers table, the subscribe endpoint with its rate limiter,  *)
(* and the unsubscribe endpoint.  Every store query is one atomic step     *)
(* (PostgreSQL statement atomicity); a request is a process whose position *)
(* is the await it is suspended on.                                        *)
(*                                                                         *)
(* Left out: generalLimiter (100 requests per window over all routes), the *)
(* columns ip_address, user_agent and confirmation_token (written once by  *)
(* the INSERT and read by no statement), the stats, export and health      *)
(* endpoints (read-only).                                                  *)
(***************************************************************************)
EXTENDS Integers, Sequences, FiniteSets, TLC

VARIABLES subscribers, nextId, now, hits, admitted, pc, req, resp, start

vars == <<subscribers, nextId, now, hits, admitted, pc, req, resp, start>>

(***************************************************************************)
(* Bounds of the model.                                                    *)
(***************************************************************************)
NumTokens == 2
MaxTime == 1
ExtraHits == 1

Procs == {1, 2}
IPs == {"ip1", "ip2"}
Tokens == 1..NumTokens

(***************************************************************************)
(* Program constants.                                                      *)
(***************************************************************************)
EmailSignupMax == 5
MaxEmailLen == 255
RetryAfterMs == 900000

(***************************************************************************)
(* Strings are sequences of one-character strings.                         *)
(***************************************************************************)
Upper == {"A", "B"}
Lower == {"a", "b", "c", "o", "x", "m", "p"}
LocalSpecials == {"&"}

RawEmails ==
    { <<>>,
      <<"a", "@", "b", ".", "c", "o">>,
      <<" ", "A", "@", "B", ".", "c", "o", " ">>,
      <<"x", "@", "b", ".", "c", "o">>,
      <<"a", "&", "@", "b", ".", "c", "o">> }

toLowerCaseChar(c) ==
    CASE c = "A" -> "a"
      [] c = "B" -> "b"
      [] OTHER -> c

toLowerCase(s) == [i \in 1..Len(s) |-> toLowerCaseChar(s[i])]

RECURSIVE trimStart(_)
trimStart(s) ==
    IF s # <<>> /\ Head(s) = " " THEN trimStart(Tail(s)) ELSE s

RECURSIVE trimEnd(_)
trimEnd(s) ==
    IF s # <<>> /\ s[Len(s)] = " " THEN trimEnd(SubSeq(s, 1, Len(s) - 1)) ELSE s

trim(s) == trimEnd(trimStart(s))

escapeChar(c) ==
    CASE c = "&" -> <<"&", "a", "m", "p", ";">>
      [] OTHER -> <<c>>

RECURSIVE escape(_)
escape(s) ==
    IF s = <<>> THEN <<>> ELSE escapeChar(Head(s)) \o escape(Tail(s))

sanitizeEmail(email) == escape(trim(toLowerCase(email)))

(* validator.isEmail on this alphabet: one "@", a non-empty local part of   *)
(* letters and permitted specials, a domain of at least two non-empty       *)
(* alphabetic labels whose last has two letters or more.                    *)
AtPositions(s) == {i \in 1..Len(s) : s[i] = "@"}

RECURSIVE Labels(_)
Labels(d) ==
    IF \E i \in 1..Len(d) : d[i] = "."
    THEN LET k == CHOOSE i \in 1..Len(d) :
                     d[i] = "." /\ \A j \in 1..(i - 1) : d[j] # "."
         IN <<SubSeq(d, 1, k - 1)>> \o Labels(SubSeq(d, k + 1, Len(d)))
    ELSE <<d>>

isEmail(s) ==
    /\ Cardinality(AtPositions(s)) = 1
    /\ LET at == CHOOSE i \in AtPositions(s) : TRUE
           local == SubSeq(s, 1, at - 1)
           labels == Labels(SubSeq(s, at + 1, Len(s)))
       IN /\ local # <<>>
          /\ \A i \in 1..Len(local) : local[i] \in Lower \cup Upper \cup LocalSpecials
          /\ Len(labels) >= 2
          /\ \A k \in 1..Len(labels) :
                /\ labels[k] # <<>>
                /\ \A i \in 1..Len(labels[k]) : labels[k][i] \in Lower \cup Upper
          /\ Len(labels[Len(labels)]) >= 2

validateEmail(email) == isEmail(email) /\ Len(email) <= MaxEmailLen

(***************************************************************************)
(* Responses.                                                              *)
(***************************************************************************)
NoReq == [kind |-> "none", raw |-> <<>>, token |-> 0]
NoResp == [status |-> 0, body |-> [none |-> TRUE]]

Json(status, success, message) ==
    [status |-> status, body |-> [success |-> success, message |-> message]]

Html(status, heading) == [status |-> status, body |-> [html |-> heading]]

LimiterResponse ==
    [status |-> 429,
     body |-> [error |-> "Too many email signup attempts, please try again later.",
               retryAfter |-> RetryAfterMs]]

(* The catch block without its branch on the unique violation.             *)
CatchResponse_No23505(code) ==
    Json(500, FALSE, "Something went wrong. Please try again later.")

(* The catch block of the subscribe handler.                                *)
CatchResponse(code) ==
    IF code = "23505"
    THEN Json(409, FALSE, "This email is already subscribed.")
    ELSE Json(500, FALSE, "Something went wrong. Please try again later.")

(***************************************************************************)
(* The email_subscribers table and the four statements run against it.     *)
(***************************************************************************)
SelectByEmail(table, email) == {r \in table : r.email = email}

(* The reactivating UPDATE without subscribed_at = CURRENT_TIMESTAMP.       *)
UpdateReactivate_NoRefresh(table, email, ts) ==
    {IF r.email = email THEN [r EXCEPT !.isActive = TRUE] ELSE r : r \in table}

UpdateReactivate(table, email, ts) ==
    {IF r.email = email
     THEN [r EXCEPT !.isActive = TRUE, !.subscribedAt = ts]
     ELSE r : r \in table}

(* The email column without its UNIQUE constraint.                          *)
UniqueViolation_NoConstraint(table, email) == FALSE

UniqueViolation(table, email) == \E r \in table : r.email = email

(* unsubscribe_token with a constant default instead of gen_random_uuid(). *)
NewRow_FixedToken(id, email, ts, token) ==
    [id |-> id, email |-> email, subscribedAt |-> ts, isActive |-> TRUE,
     confirmed |-> FALSE, unsubscribeToken |-> 1]

NewRow(id, email, ts, token) ==
    [id |-> id, email |-> email, subscribedAt |-> ts, isActive |-> TRUE,
     confirmed |-> FALSE, unsubscribeToken |-> token]

InsertRow(table, id, email, ts, token) ==
    table \cup {NewRow(id, email, ts, token)}

MatchToken(table, token) == {r \in table : r.unsubscribeToken = token}

(* The deactivating UPDATE without its WHERE clause.                        *)
UpdateDeactivate_All(table, token) ==
    {[r EXCEPT !.isActive = FALSE] : r \in table}

UpdateDeactivate(table, token) ==
    {IF r.unsubscribeToken = token THEN [r EXCEPT !.isActive = FALSE] ELSE r :
        r \in table}

UsedTokens(table) == {r.unsubscribeToken : r \in table}

(***************************************************************************)
(* emailSignupLimiter: a fixed window counter per client IP.               *)
(***************************************************************************)
(* The limiter letting one request too many through.                       *)
Limited_OffByOne(totalHits) == totalHits > EmailSignupMax + 1

Limited(totalHits) == totalHits > EmailSignupMax

(* res.status(..).json(..) or .send(..): the handler returns, its locals    *)
(* are gone.                                                                *)
Respond(p, kind, token, r) ==
    /\ pc' = [pc EXCEPT ![p] = "done"]
    /\ req' = [req EXCEPT ![p] = [kind |-> kind, raw |-> <<>>, token |-> token]]
    /\ resp' = [resp EXCEPT ![p] = r]

Reply(p, r) == Respond(p, "subscribe", 0, r)

(* POST /api/subscribe arrives: the limiter, then the handler up to its     *)
(* first await.                                                             *)
Subscribe(p, ip, raw) ==
    /\ pc[p] = "idle"
    /\ hits[ip] < EmailSignupMax + ExtraHits
    /\ hits' = [hits EXCEPT ![ip] = @ + 1]
    /\ IF Limited(hits[ip] + 1)
       THEN /\ Reply(p, LimiterResponse)
            /\ UNCHANGED admitted
       ELSE /\ admitted' = [admitted EXCEPT ![ip] = @ + 1]
            /\ IF raw = <<>>
               THEN Reply(p, Json(400, FALSE, "Email address is required."))
               ELSE IF ~validateEmail(sanitizeEmail(raw))
               THEN Reply(p, Json(400, FALSE, "Please enter a valid email address."))
               ELSE /\ pc' = [pc EXCEPT ![p] = "check"]
                    /\ req' = [req EXCEPT ![p] =
                                  [kind |-> "subscribe", raw |-> raw, token |-> 0]]
                    /\ UNCHANGED resp
    /\ UNCHANGED <<subscribers, nextId, now, start>>

(* The lookup branch refreshing subscribed_at before it answers 409.        *)
SubCheck_Refresh(p) ==
    /\ pc[p] = "check"
    /\ LET email == sanitizeEmail(req[p].raw)
           rows == SelectByEmail(subscribers, email)
       IN IF rows # {}
          THEN IF \E r \in rows : r.isActive
               THEN /\ subscribers' =
                          {IF r.email = email THEN [r EXCEPT !.subscribedAt = now]
                           ELSE r : r \in subscribers}
                    /\ Reply(p, Json(409, FALSE,
                            "This email is already subscribed to our newsletter."))
               ELSE /\ pc' = [pc EXCEPT ![p] = "update"]
                    /\ UNCHANGED <<subscribers, req, resp>>
          ELSE /\ pc' = [pc EXCEPT ![p] = "insert"]
               /\ UNCHANGED <<subscribers, req, resp>>
    /\ UNCHANGED <<nextId, now, hits, admitted, start>>

(* The lookup branch without its test of is_active.                         *)
SubCheck_NoActiveTest(p) ==
    /\ pc[p] = "check"
    /\ pc' = [pc EXCEPT ![p] =
                 IF SelectByEmail(subscribers, sanitizeEmail(req[p].raw)) # {}
                 THEN "update" ELSE "insert"]
    /\ UNCHANGED <<subscribers, nextId, now, hits, admitted, req, resp, start>>

(* SELECT id, is_active ... WHERE email = $1, and the branch on its rows.   *)
SubCheck(p) ==
    /\ pc[p] = "check"
    /\ LET rows == SelectByEmail(subscribers, sanitizeEmail(req[p].raw))
       IN IF rows # {}
          THEN IF \E r \in rows : r.isActive
               THEN Reply(p, Json(409, FALSE,
                        "This email is already subscribed to our newsletter."))
               ELSE /\ pc' = [pc EXCEPT ![p] = "update"]
                    /\ UNCHANGED <<req, resp>>
          ELSE /\ pc' = [pc EXCEPT ![p] = "insert"]
               /\ UNCHANGED <<req, resp>>
    /\ UNCHANGED <<subscribers, nextId, now, hits, admitted, start>>

(* UPDATE ... SET is_active = true, subscribed_at = CURRENT_TIMESTAMP.      *)
SubUpdate(p) ==
    /\ pc[p] = "update"
    /\ subscribers' = UpdateReactivate(subscribers, sanitizeEmail(req[p].raw), now)
    /\ Reply(p, Json(200, TRUE,
           "Welcome back! You've been resubscribed to our newsletter."))
    /\ UNCHANGED <<nextId, now, hits, admitted, start>>

(* INSERT INTO email_subscribers: the UNIQUE(email) constraint rejects a    *)
(* second row for the email (error 23505, thrown into the catch block).     *)
(* The id comes from the SERIAL sequence (the values a rejected INSERT      *)
(* consumes are not modelled); gen_random_uuid() is a token no row carries. *)
SubInsert(p) ==
    /\ pc[p] = "insert"
    /\ LET email == sanitizeEmail(req[p].raw)
       IN IF UniqueViolation(subscribers, email)
          THEN /\ Reply(p, CatchResponse("23505"))
               /\ UNCHANGED <<subscribers, nextId>>
          ELSE /\ \E token \in Tokens \ UsedTokens(subscribers) :
                     subscribers' = InsertRow(subscribers, nextId, email, now, token)
               /\ nextId' = nextId + 1
               /\ Reply(p, Json(201, TRUE,
                      "Thank you! You'll be notified when Auravia launches."))
    /\ UNCHANGED <<now, hits, admitted, start>>

(* A store query of the subscribe handler throws something else than 23505. *)
StoreError(p) ==
    /\ pc[p] \in {"check", "update", "insert"}
    /\ Reply(p, CatchResponse("other"))
    /\ UNCHANGED <<subscribers, nextId, now, hits, admitted, start>>

(* GET /api/unsubscribe/:token: one UPDATE ... RETURNING email.             *)
Unsubscribe(p, token) ==
    /\ pc[p] = "idle"
    /\ subscribers' = UpdateDeactivate(subscribers, token)
    /\ IF MatchToken(subscribers, token) = {}
       THEN Respond(p, "unsubscribe", token, Html(404, "Invalid Unsubscribe Link"))
       ELSE Respond(p, "unsubscribe", token, Html(200, "Successfully Unsubscribed"))
    /\ UNCHANGED <<nextId, now, hits, admitted, start>>

UnsubscribeError(p, token) ==
    /\ pc[p] = "idle"
    /\ Respond(p, "unsubscribe", token, Html(500, "Error"))
    /\ UNCHANGED <<subscribers, nextId, now, hits, admitted, start>>

(* The response has been sent; the slot takes the next request.             *)
Recycle(p) ==
    /\ pc[p] = "done"
    /\ pc' = [pc EXCEPT ![p] = "idle"]
    /\ req' = [req EXCEPT ![p] = NoReq]
    /\ resp' = [resp EXCEPT ![p] = NoResp]
    /\ UNCHANGED <<subscribers, nextId, now, hits, admitted, start>>

(* CURRENT_TIMESTAMP advances.                                              *)
Tick ==
    /\ now < MaxTime
    /\ now' = now + 1
    /\ UNCHANGED <<subscribers, nextId, hits, admitted, pc, req, resp, start>>

(* The 15 minute window of a key ends: its counter is dropped.              *)
WindowReset(ip) ==
    /\ hits[ip] > 0
    /\ hits' = [hits EXCEPT ![ip] = 0]
    /\ admitted' = [admitted EXCEPT ![ip] = 0]
    /\ UNCHANGED <<subscribers, nextId, now, pc, req, resp, start>>

(***************************************************************************)
(* The server after startServer(): no request in flight, the limiter's     *)
(* store empty.                                                            *)
(***************************************************************************)
Idle ==
    /\ now = 0
    /\ hits = [ip \in IPs |-> 0]
    /\ admitted = [ip \in IPs |-> 0]
    /\ pc = [p \in Procs |-> "idle"]
    /\ req = [p \in Procs |-> NoReq]
    /\ resp = [p \in Procs |-> NoResp]

(* A fresh database: CREATE TABLE IF NOT EXISTS creates the empty table.    *)
Init ==
    /\ Idle
    /\ subscribers = {}
    /\ nextId = 1
    /\ start = subscribers

(* Two concurrent request slots, one client.                                *)
Next ==
    \/ \E p \in Procs, raw \in RawEmails : Subscribe(p, "ip1", raw)
    \/ \E p \in Procs : SubCheck(p)
    \/ \E p \in Procs : SubUpdate(p)
    \/ \E p \in Procs : SubInsert(p)
    \/ \E p \in Procs : StoreError(p)
    \/ \E p \in Procs, token \in Tokens : Unsubscribe(p, token)
    \/ \E p \in Procs, token \in Tokens : UnsubscribeError(p, token)
    \/ \E p \in Procs : Recycle(p)
    \/ Tick
    \/ WindowReset("ip1")

Spec == Init /\ [][Next]_vars

(* One request at a time, from either client.                               *)
NextLimiter ==
    \/ \E ip \in IPs, raw \in RawEmails : Subscribe(1, ip, raw)
    \/ SubCheck(1)
    \/ SubUpdate(1)
    \/ SubInsert(1)
    \/ StoreError(1)
    \/ \E token \in Tokens : Unsubscribe(1, token)
    \/ Recycle(1)
    \/ \E ip \in IPs : WindowReset(ip)

SpecLimiter == Init /\ [][NextLimiter]_vars

(***************************************************************************)
(* Two requests on one email, each slot serving exactly one, from a table  *)
(* in which the email is absent, active or inactive (the table exists      *)
(* already when the server starts); the store stays available.             *)
(***************************************************************************)
PairEmail == <<"a", "@", "b", ".", "c", "o">>

PairRaws == {raw \in RawEmails : sanitizeEmail(raw) = PairEmail}

PairStarts ==
    { {},
      {NewRow(1, PairEmail, 0, 1)},
      {[NewRow(1, PairEmail, 0, 1) EXCEPT !.isActive = FALSE]} }

InitPair ==
    /\ Idle
    /\ subscribers \in PairStarts
    /\ nextId = Cardinality(subscribers) + 1
    /\ start = subscribers

NextPair ==
    \/ \E p \in Procs, raw \in PairRaws : Subscribe(p, "ip1", raw)
    \/ \E p \in Procs : SubCheck(p)
    \/ \E p \in Procs : SubUpdate(p)
    \/ \E p \in Procs : SubInsert(p)
    \/ \E p \in Procs, token \in Tokens : Unsubscribe(p, token)

SpecPair == InitPair /\ [][NextPair]_vars

(***************************************************************************)
(* Vocabulary of the properties.                                           *)
(***************************************************************************)
Done(p) == pc[p] = "done"

SubscribeDone(p) == Done(p) /\ req[p].kind = "subscribe"

UnsubscribeDone(p) == Done(p) /\ req[p].kind = "unsubscribe"

HasJsonFields(r) == {"success", "message"} \subseteq DOMAIN r.body

Succeeded(r) == "success" \in DOMAIN r.body /\ r.body.success = TRUE

(* The step in which slot p's subscribe handler leaves position `at`        *)
(* because its query returned (not because the store failed).               *)
QueryReturns(p, at) ==
    /\ pc[p] = at
    /\ pc'[p] # at
    /\ resp'[p].status # 500

(* The step in which slot p serves GET /api/unsubscribe/:token.             *)
UnsubscribeReturns(p) ==
    /\ pc[p] = "idle"
    /\ pc'[p] = "done"
    /\ req'[p].kind = "unsubscribe"
    /\ resp'[p].status # 500

(* C1: in every reachable state the table holds at most one record per     *)
(* email, active or not.                                                    *)
C1_UniqueEmail ==
    \A r1 \in subscribers, r2 \in subscribers : r1.email = r2.email => r1 = r2

(* An INSERT lost the race for its email while the table holds an inactive  *)
(* and a second record.                                                     *)
C1_Witness ==
    /\ \E p \in Procs : Done(p) /\ resp[p] = CatchResponse("23505")
    /\ Cardinality(subscribers) = 2
    /\ \E r \in subscribers : ~r.isActive

(* C2: two subscribe requests for the same unknown email, in any            *)
(* interleaving, leave exactly one record, active; each response is 201 or  *)
(* 409, and exactly one is 201.                                             *)
C2_OneWinner ==
    (start = {} /\ \A p \in Procs : SubscribeDone(p)) =>
        /\ \E r \in subscribers :
              subscribers = {r} /\ r.email = PairEmail /\ r.isActive
        /\ \A p \in Procs : resp[p].status \in {201, 409}
        /\ Cardinality({p \in Procs : resp[p].status = 201}) = 1

(* Both existence checks ran before either insert: the loser's INSERT hit   *)
(* the uniqueness constraint.                                               *)
C2_Witness ==
    /\ start = {}
    /\ \A p \in Procs : SubscribeDone(p)
    /\ \E p \in Procs : resp[p] = CatchResponse("23505")

(* C3: a subscribe whose lookup finds an inactive record goes on to the     *)
(* UPDATE, which answers 200 with success, sets that record active with     *)
(* subscribedAt the current time, and changes nothing else: same number of  *)
(* records, same id, email and token, every other record as it was.         *)
C3_Reactivation ==
    [][\A p \in Procs :
          /\ ( /\ QueryReturns(p, "check")
               /\ \E r \in subscribers :
                     r.email = sanitizeEmail(req[p].raw) /\ ~r.isActive )
             => (pc'[p] = "update" /\ subscribers' = subscribers)
          /\ QueryReturns(p, "update") =>
                LET email == sanitizeEmail(req[p].raw)
                IN /\ pc'[p] = "done"
                   /\ resp'[p].status = 200
                   /\ Succeeded(resp'[p])
                   /\ Cardinality(subscribers') = Cardinality(subscribers)
                   /\ \E r \in subscribers : r.email = email
                   /\ \A r \in subscribers :
                         IF r.email = email
                         THEN \E n \in subscribers' :
                                 /\ n.id = r.id
                                 /\ n.email = r.email
                                 /\ n.unsubscribeToken = r.unsubscribeToken
                                 /\ n.confirmed = r.confirmed
                                 /\ n.isActive
                                 /\ n.subscribedAt = now
                         ELSE r \in subscribers']_vars

(* A welcome-back answer next to a second record, the reactivated record    *)
(* stamped later than time 0.                                               *)
C3_Witness ==
    /\ \E p \in Procs : SubscribeDone(p) /\ resp[p].status = 200
    /\ Cardinality(subscribers) = 2
    /\ now > 0
    /\ \E r \in subscribers : r.isActive /\ r.subscribedAt = now

(* C4: an unsubscribe request whose token belongs to a record that is       *)
(* already inactive is answered 404.                                        *)
C4_SecondVisitNotFound ==
    [][\A p \in Procs :
          ( /\ UnsubscribeReturns(p)
            /\ \E r \in subscribers :
                  r.unsubscribeToken = req'[p].token /\ ~r.isActive )
          => resp'[p].status = 404]_vars

(* C5: every response to POST /api/subscribe has one of the six statuses   *)
(* and a body with a success and a message field.                           *)
C5_BodyShape ==
    \A p \in Procs :
        SubscribeDone(p) =>
            /\ resp[p].status \in {200, 201, 400, 409, 429, 500}
            /\ HasJsonFields(resp[p])

(* C6: a subscribe whose lookup finds an active record answers 409 in that  *)
(* step and the table is unchanged.                                         *)
C6_AlreadySubscribed ==
    [][\A p \in Procs :
          ( /\ QueryReturns(p, "check")
            /\ \E r \in subscribers :
                  r.email = sanitizeEmail(req[p].raw) /\ r.isActive )
          => /\ pc'[p] = "done"
             /\ resp'[p].status = 409
             /\ ~Succeeded(resp'[p])
             /\ subscribers' = subscribers]_vars

(* The 409 of the lookup branch, sent after the clock moved past the        *)
(* record's subscribedAt.                                                   *)
C6_Witness ==
    /\ \E p \in Procs :
          /\ SubscribeDone(p)
          /\ resp[p] = Json(409, FALSE,
                            "This email is already subscribed to our newsletter.")
    /\ \E r \in subscribers : r.isActive /\ r.subscribedAt < now

(* C7: an unsubscribe with a token no record carries answers 404 and the    *)
(* table is unchanged; with a record's token it sets that record's isActive *)
(* to false and nothing else.                                               *)
C7_UnsubscribeEffect ==
    [][\A p \in Procs :
          UnsubscribeReturns(p) =>
              LET token == req'[p].token
              IN IF \A r \in subscribers : r.unsubscribeToken # token
                 THEN resp'[p].status = 404 /\ subscribers' = subscribers
                 ELSE /\ Cardinality(subscribers') = Cardinality(subscribers)
                      /\ \A r \in subscribers :
                            IF r.unsubscribeToken = token
                            THEN [r EXCEPT !.isActive = FALSE] \in subscribers'
                            ELSE r \in subscribers']_vars

(* One slot was answered 404, the other deactivated one of two records.     *)
C7_Witness ==
    /\ \E p \in Procs : UnsubscribeDone(p) /\ resp[p].status = 404
    /\ \E p \in Procs :
          /\ UnsubscribeDone(p)
          /\ resp[p].status = 200
          /\ \E r \in subscribers : r.unsubscribeToken = req[p].token /\ ~r.isActive
    /\ \E r \in subscribers : r.isActive

(* C8: an INSERT for an email that has no record answers 201 with success   *)
(* and adds exactly one record: the sanitized email, active, unconfirmed,   *)
(* with an id and a token no other record has; the records that were there  *)
(* are unchanged.                                                           *)
C8_NewSubscriber ==
    [][\A p \in Procs :
          /\ ( /\ QueryReturns(p, "check")
               /\ \A r \in subscribers : r.email # sanitizeEmail(req[p].raw) )
             => (pc'[p] = "insert" /\ subscribers' = subscribers)
          /\ ( /\ QueryReturns(p, "insert")
               /\ \A r \in subscribers : r.email # sanitizeEmail(req[p].raw) )
             => /\ pc'[p] = "done"
                /\ resp'[p].status = 201
                /\ Succeeded(resp'[p])
                /\ \E n \in subscribers' :
                      /\ n \notin subscribers
                      /\ subscribers' = subscribers \cup {n}
                      /\ n.email = sanitizeEmail(req[p].raw)
                      /\ n.isActive
                      /\ ~n.confirmed
                      /\ \A r \in subscribers :
                            /\ r.unsubscribeToken # n.unsubscribeToken
                            /\ r.id # n.id]_vars

(* A 201 for the second record of the table.                                *)
C8_Witness ==
    /\ \E p \in Procs : SubscribeDone(p) /\ resp[p].status = 201
    /\ Cardinality(subscribers) = 2

(* The step in which a POST /api/subscribe from ip passes the limiter's     *)
(* counter.                                                                 *)
Arrives(ip) == hits'[ip] = hits[ip] + 1

OthersUntouched(ip) ==
    \A o \in IPs \ {ip} : hits'[o] = hits[o] /\ admitted'[o] = admitted[o]

(* C9: per client IP and window at most EmailSignupMax requests reach the   *)
(* handler; each further one is answered 429 and leaves the table as it     *)
(* was; the other IPs' counters are untouched; a window reset clears the    *)
(* IP's count, and an IP below the limit is served.                         *)
C9_RateLimit ==
    /\ [](\A ip \in IPs : admitted[ip] <= EmailSignupMax)
    /\ [][\A ip \in IPs :
             Arrives(ip) =>
                 /\ OthersUntouched(ip)
                 /\ IF admitted[ip] >= EmailSignupMax
                    THEN /\ admitted' = admitted
                         /\ subscribers' = subscribers
                         /\ \E p \in Procs :
                               pc[p] = "idle" /\ pc'[p] = "done" /\ resp'[p].status = 429
                    ELSE /\ admitted'[ip] = admitted[ip] + 1
                         /\ \E p \in Procs :
                               pc[p] = "idle" /\ pc'[p] # "idle" /\ resp'[p].status # 429]_vars
    /\ [][\A ip \in IPs :
             (hits[ip] > 0 /\ hits'[ip] = 0) =>
                 /\ admitted'[ip] = 0
                 /\ OthersUntouched(ip)
                 /\ subscribers' = subscribers]_vars

(* One client is refused its sixth request of the window while the other    *)
(* client, served in the same window, is below the limit.                   *)
C9_Witness ==
    /\ SubscribeDone(1)
    /\ resp[1].status = 429
    /\ admitted["ip1"] = EmailSignupMax
    /\ hits["ip1"] > EmailSignupMax
    /\ admitted["ip2"] \in 1..(EmailSignupMax - 1)

(***************************************************************************)
(* The two requests of a pair run one after the other, each as one atomic  *)
(* step: the outcomes a sequential order can produce.                      *)
(***************************************************************************)
Summary(table) ==
    {[email |-> r.email, isActive |-> r.isActive,
      unsubscribeToken |-> r.unsubscribeToken] : r \in table}

AtomicSubscribe(table, email) ==
    LET rows == SelectByEmail(table, email)
    IN IF rows # {}
       THEN IF \E r \in rows : r.isActive
            THEN {[table |-> table, status |-> 409]}
            ELSE {[table |-> UpdateReactivate(table, email, 0), status |-> 200]}
       ELSE {[table |-> InsertRow(table, 0, email, 0, token), status |-> 201] :
                token \in Tokens \ UsedTokens(table)}

AtomicUnsubscribe(table, token) ==
    {[table |-> UpdateDeactivate(table, token),
      status |-> IF MatchToken(table, token) = {} THEN 404 ELSE 200]}

Atomic(table, p) ==
    IF req[p].kind = "subscribe"
    THEN AtomicSubscribe(table, PairEmail)
    ELSE AtomicUnsubscribe(table, req[p].token)

SequentialOutcomes(first, second) ==
    UNION { { [status |-> [p \in Procs |-> IF p = first THEN o1.status ELSE o2.status],
               final |-> Summary(o2.table)] : o2 \in Atomic(o1.table, second) } :
            o1 \in Atomic(start, first) }

Observed ==
    [status |-> [p \in Procs |-> resp[p].status], final |-> Summary(subscribers)]

PairDone ==
    /\ \A p \in Procs : Done(p)
    /\ \E p \in Procs : req[p].kind = "subscribe"

Linearized == Observed \in SequentialOutcomes(1, 2) \cup SequentialOutcomes(2, 1)

(* Both subscribes looked up the inactive record before either UPDATE.      *)
BothWelcomedBack ==
    /\ \E r \in start : ~r.isActive
    /\ \A p \in Procs : SubscribeDone(p) /\ resp[p].status = 200
    /\ Summary(subscribers) = Summary(UpdateReactivate(start, PairEmail, 0))

(* C10 as stated: the statuses of the two responses and the final record    *)
(* of any concurrent pair are those of some sequential order of the two     *)
(* requests.                                                                *)
C10_Linearizable == PairDone => Linearized

(* C10 as amended: the same, except that two subscribes for an inactive     *)
(* record may both be answered 200, the one record left active.             *)
C10_LinearizableButWelcomeBack == PairDone => (Linearized \/ BothWelcomedBack)

C10_Witness == PairDone /\ BothWelcomedBack /\ ~Linearized

====
